---- MODULE Spec2Model ----
(***************************************************************************)
(* LokGeet (src/app/app.py): a Streamlit script that saves an uploaded     *)
(* audio file, transcribes and transliterates it, asks for metadata and    *)
(* consent and appends an entry to data.json.                              *)
(*                                                                         *)
(* Three specifications over the same state:                               *)
(*   SpecStore  load_db / save_entry / export called by two sessions, the  *)
(*              read and the rewrite of save_entry being separate steps;   *)
(*   SpecBody   the script body run top to bottom on any values its        *)
(*              widgets may return (an over-approximation of a session);   *)
(*   Spec       an operator's session: every interaction reruns the script *)
(*              and a button is True only in the rerun its click caused.   *)
(***************************************************************************)
EXTENDS Integers, Sequences, FiniteSets, TLC

VARIABLES
    dbFile,             \* DB_FILE (data.json): [exists, text]
    exportFile,         \* BASE_DIR / "export.json": [exists, text]
    uploads,            \* UPLOAD_DIR: function from saved paths to their bytes
    now,                \* the UTC clock, in ticks
    WHISPER_AVAILABLE,  \* faster_whisper could be imported
    TRANSLIT_AVAILABLE, \* indic_transliteration could be imported
    MODEL,              \* the module global MODEL: <<>> (None) or <<size>>
    audio_file,         \* the uploader widget: <<>> (None) or <<[name, bytes]>>
    screen,             \* what the last script run rendered
    run,                \* record of the last script run (inputs and outcome)
    pc,                 \* SpecStore: where each session is inside save_entry
    db,                 \* SpecStore: the local variable db of save_entry
    entryArg,           \* SpecStore: the argument of the running save_entry
    result,             \* SpecStore: what each session's last call returned
    stale,              \* SpecStore: another session wrote since this one read
    calls,              \* SpecStore: the completed save_entry calls, in order
    store0              \* SpecStore: data.json as it was at the start

vars == <<dbFile, exportFile, uploads, now, WHISPER_AVAILABLE, TRANSLIT_AVAILABLE,
          MODEL, audio_file, screen, run, pc, db, entryArg, result, stale, calls,
          store0>>

appVars == <<uploads, now, WHISPER_AVAILABLE, TRANSLIT_AVAILABLE, MODEL,
             audio_file, screen, run>>
storeVars == <<pc, db, entryArg, result, stale, calls, store0>>

----------------------------------------------------------------------------
(* Bounds *)

MaxEntries == 2      \* SpecStore: save_entry calls in one behaviour
MaxSaved == 2        \* SpecBody: entries a behaviour saves
MaxClock == 2        \* last clock tick
TicksPerSecond == 2  \* clock ticks in one second of the timestamp

----------------------------------------------------------------------------
(* Files and JSON text.  A text is a sequence of tokens; an object token  *)
(* carries the record it was written from.                                *)

NoFile == [exists |-> FALSE, text |-> <<>>]
File(text) == [exists |-> TRUE, text |-> text]

Tok(k) == [k |-> k, e |-> <<>>]
LB == Tok("[")
RB == Tok("]")
COMMA == Tok(",")

(* Python values read from or written to JSON. *)
PyList(items) == [t |-> "list", items |-> items, e |-> <<>>]
PyDict(e) == [t |-> "dict", items |-> <<>>, e |-> e]
PyInt == [t |-> "int", items |-> <<>>, e |-> <<>>]
PyNone == [t |-> "none", items |-> <<>>, e |-> <<>>]

Ok(v) == [ok |-> TRUE, err |-> "", val |-> v]
Raise(err) == [ok |-> FALSE, err |-> err, val |-> PyNone]

ScalarTok(v) ==
    CASE v.t = "dict" -> [k |-> "obj", e |-> v.e]
      [] v.t = "int" -> Tok("1")
      [] OTHER -> Tok("null")

ScalarVal(tok) ==
    CASE tok.k = "obj" -> PyDict(tok.e)
      [] tok.k = "1" -> PyInt
      [] OTHER -> PyNone

IsScalarTok(tok) == tok.k \in {"obj", "1", "null"}

json_dumps(v) ==
    IF v.t = "list"
    THEN LET n == Len(v.items)
             body == [i \in 1..(IF n = 0 THEN 0 ELSE 2 * n - 1) |->
                         IF i % 2 = 1 THEN ScalarTok(v.items[(i + 1) \div 2])
                                      ELSE COMMA]
         IN <<LB>> \o body \o <<RB>>
    ELSE <<ScalarTok(v)>>

json_loads(text) ==
    LET n == Len(text) IN
    IF n = 0 THEN Raise("JSONDecodeError")
    ELSE IF n = 1
    THEN IF IsScalarTok(text[1]) THEN Ok(ScalarVal(text[1]))
                                 ELSE Raise("JSONDecodeError")
    ELSE IF text[1] = LB /\ text[n] = RB
    THEN LET body == SubSeq(text, 2, n - 1)
             m == Len(body)
             wellFormed ==
                 \/ m = 0
                 \/ /\ m % 2 = 1
                    /\ \A i \in 1..m :
                          IF i % 2 = 1 THEN IsScalarTok(body[i])
                                       ELSE body[i] = COMMA
         IN IF wellFormed
            THEN Ok(PyList([j \in 1..((m + 1) \div 2) |-> ScalarVal(body[2 * j - 1])]))
            ELSE Raise("JSONDecodeError")
    ELSE Raise("JSONDecodeError")

----------------------------------------------------------------------------
(* Entry Store *)

(* load_db without the exists() test: reading a missing file raises. *)
load_db_no_exists_check(file) ==
    IF file.exists THEN json_loads(file.text) ELSE Raise("FileNotFoundError")

load_db(file) ==
    IF file.exists THEN json_loads(file.text) ELSE Ok(PyList(<<>>))

(* db.insert(0, entry) in place of db.append(entry). *)
list_append_front(v, entry) ==
    IF v.t = "list" THEN Ok(PyList(<<PyDict(<<entry>>)>> \o v.items))
                    ELSE Raise("AttributeError")

(* db.append(entry): only a list has append. *)
list_append(v, entry) ==
    IF v.t = "list" THEN Ok(PyList(Append(v.items, PyDict(<<entry>>))))
                    ELSE Raise("AttributeError")

(* save_entry that starts from an empty list in place of load_db(). *)
save_entry_db_no_read(file, entry) ==
    list_append(PyList(<<>>), entry)

(* save_entry up to the rewrite: the value that is about to be written. *)
save_entry_db(file, entry) ==
    LET r == load_db(file) IN
    IF r.ok THEN list_append(r.val, entry) ELSE r

(* save_entry that overwrites the last stored entry (db[-1:] = [entry]). *)
save_entry_replace_last(file, entry) ==
    LET r == load_db(file) IN
    IF ~r.ok THEN [ok |-> FALSE, err |-> r.err, file |-> file]
    ELSE IF r.val.t # "list" THEN [ok |-> FALSE, err |-> "TypeError", file |-> file]
    ELSE [ok |-> TRUE, err |-> "",
          file |-> File(json_dumps(PyList(
                     SubSeq(r.val.items, 1, Len(r.val.items) - 1)
                       \o <<PyDict(<<entry>>)>>)))]

(* save_entry run without interruption: the outcome and the file after it. *)
save_entry(file, entry) ==
    LET a == save_entry_db(file, entry) IN
    IF a.ok THEN [ok |-> TRUE, err |-> "", file |-> File(json_dumps(a.val))]
            ELSE [ok |-> FALSE, err |-> a.err, file |-> file]

(* len(db) of the export report. *)
py_len(v) ==
    CASE v.t = "list" -> Len(v.items)
      [] v.t = "dict" -> Len(v.e)
      [] OTHER -> -1

(* The collection a file holds, when it holds one: a list of objects. *)
IsCollection(file) ==
    LET r == load_db(file) IN
    /\ r.ok
    /\ r.val.t = "list"
    /\ \A i \in 1..Len(r.val.items) :
          r.val.items[i].t = "dict" /\ Len(r.val.items[i].e) = 1

Collection(file) ==
    LET items == load_db(file).val.items IN
    [i \in 1..Len(items) |-> items[i].e[1]]

(* An entry stamped with the clock reading in place of the run's ts. *)
Entry_uploaded_now(ts, meta, saved_path, transcript, translit_box, translation, detected_lang) ==
    [id |-> ts,
     title |-> meta.title,
     performer |-> meta.performer,
     location |-> meta.location,
     context |-> meta.context,
     date_of_recording |-> meta.date_of_recording,
     uploaded_at |-> now,
     audio_path |-> saved_path,
     transcript |-> transcript,
     transliteration |-> translit_box,
     translation |-> translation,
     detected_language |-> detected_lang]

(* The record the form handler builds (lines 301-314). *)
Entry(ts, meta, saved_path, transcript, translit_box, translation, detected_lang) ==
    [id |-> ts,
     title |-> meta.title,
     performer |-> meta.performer,
     location |-> meta.location,
     context |-> meta.context,
     date_of_recording |-> meta.date_of_recording,
     uploaded_at |-> ts,
     audio_path |-> saved_path,
     transcript |-> transcript,
     transliteration |-> translit_box,
     translation |-> translation,
     detected_language |-> detected_lang]

----------------------------------------------------------------------------
(* Input domains *)

Seconds == 0..(MaxClock \div TicksPerSecond)
EmptyMeta == [title |-> "", performer |-> "", location |-> "", context |-> "",
              date_of_recording |-> 0]

(* UPLOAD_DIR / f"{ts}{suffix}" *)
SavedPath(ts, suffix) == <<"uploads", ts, suffix>>

NoPath == SavedPath(-1, "")
NoEntry == Entry(-1, EmptyMeta, NoPath, "", "", "", "")

StoreEntries ==
    {Entry(ts, EmptyMeta, SavedPath(ts, ".wav"), "lyrics", "", "", "hi") : ts \in Seconds}

(* What data.json may hold when a store operation starts: nothing, a      *)
(* collection, or content that is not a collection.                        *)
CorruptTexts ==
    {<<>>,                                   \* an empty file
     <<LB, [k |-> "obj", e |-> <<>>]>>,      \* a truncated list
     <<[k |-> "obj", e |-> <<>>]>>,          \* {}
     <<Tok("null")>>,                        \* null
     <<LB, Tok("1"), RB>>}                   \* [1]

InitialStores ==
    {NoFile, File(json_dumps(PyList(<<>>)))}
      \cup {File(json_dumps(PyList(<<PyDict(<<e>>)>>))) : e \in StoreEntries}
      \cup {File(t) : t \in CorruptTexts}

----------------------------------------------------------------------------
(* SpecStore: the store functions called by two sessions. *)

Sessions == {"s1", "s2"}

NoResult == [op |-> "none", ok |-> TRUE, err |-> "", val |-> PyNone, count |-> -1]
Returned(op, r, count) ==
    [op |-> op, ok |-> r.ok, err |-> r.err, val |-> r.val, count |-> count]

NoRun ==
    [trigger |-> "none", process |-> FALSE, submitted |-> FALSE, consent |-> FALSE,
     typed |-> "", ran |-> FALSE, aborted |-> FALSE, stage |-> "none", ts |-> -1,
     saved_path |-> NoPath, asr_error |-> FALSE, model |-> <<>>,
     entry |-> NoEntry, before |-> NoFile, audio_fail |-> "none",
     asr_called |-> FALSE, steps |-> <<>>, asr_language |-> <<>>,
     asr_transcript |-> "", romanized |-> "", transcript_in |-> <<>>,
     translit_in |-> <<>>, lang_in |-> "", constructed |-> FALSE,
     MODEL_before |-> <<>>]
NoScreen ==
    [form |-> FALSE, transcript |-> "", translit_box |-> "", shown |-> -1,
     exported |-> -1, msg |-> ""]

StoreInit ==
    /\ dbFile \in InitialStores
    /\ exportFile = NoFile
    /\ uploads = {}
    /\ now = 0
    /\ WHISPER_AVAILABLE = FALSE
    /\ TRANSLIT_AVAILABLE = FALSE
    /\ MODEL = <<>>
    /\ audio_file = <<>>
    /\ screen = NoScreen
    /\ run = NoRun
    /\ pc = [s \in Sessions |-> "idle"]
    /\ db = [s \in Sessions |-> PyNone]
    /\ entryArg = [s \in Sessions |-> <<>>]
    /\ result = [s \in Sessions |-> NoResult]
    /\ stale = [s \in Sessions |-> FALSE]
    /\ calls = <<>>
    /\ store0 = dbFile

(* save_entry, lines 213-214: db = load_db(); db.append(entry) *)
StoreSaveRead(s, e) ==
    /\ pc[s] = "idle"
    /\ Len(calls) + Cardinality({t \in Sessions : pc[t] = "write"}) < MaxEntries
    /\ LET a == save_entry_db(dbFile, e) IN
       IF a.ok
       THEN /\ pc' = [pc EXCEPT ![s] = "write"]
            /\ db' = [db EXCEPT ![s] = a.val]
            /\ entryArg' = [entryArg EXCEPT ![s] = <<e>>]
            /\ stale' = [stale EXCEPT ![s] = FALSE]
            /\ result' = [result EXCEPT ![s] = NoResult]
       ELSE /\ result' = [result EXCEPT ![s] = Returned("save", a, -1)]
            /\ UNCHANGED <<pc, db, entryArg, stale>>
    /\ UNCHANGED <<dbFile, exportFile, calls, store0, appVars>>

(* save_entry, line 215: DB_FILE.write_text(json.dumps(db, ...)) *)
StoreSaveWrite(s) ==
    /\ pc[s] = "write"
    /\ dbFile' = File(json_dumps(db[s]))
    /\ pc' = [pc EXCEPT ![s] = "idle"]
    /\ result' = [result EXCEPT ![s] = Returned("save", Ok(PyNone), -1)]
    /\ stale' = [t \in Sessions |-> IF t # s /\ pc[t] = "write" THEN TRUE ELSE stale[t]]
    /\ calls' = Append(calls, [s |-> s, e |-> entryArg[s][1], stale |-> stale[s],
                                ok |-> TRUE])
    /\ UNCHANGED <<db, entryArg, exportFile, store0, appVars>>

(* load_db() called on its own. *)
StoreLoad(s) ==
    /\ pc[s] = "idle"
    /\ result' = [result EXCEPT ![s] = Returned("load", load_db(dbFile), -1)]
    /\ UNCHANGED <<dbFile, exportFile, pc, db, entryArg, stale, calls, store0, appVars>>

(* An export that drops the last entry (db[:-1]). *)
export_all_short(file, out) ==
    LET r == load_db(file)
        cut == IF r.ok /\ r.val.t = "list" /\ Len(r.val.items) > 0
               THEN PyList(SubSeq(r.val.items, 1, Len(r.val.items) - 1))
               ELSE r.val
    IN IF ~r.ok THEN [ok |-> FALSE, err |-> r.err, out |-> out, count |-> -1]
       ELSE IF py_len(r.val) < 0
       THEN [ok |-> FALSE, err |-> "TypeError", out |-> File(json_dumps(r.val)),
             count |-> -1]
       ELSE [ok |-> TRUE, err |-> "", out |-> File(json_dumps(cut)),
             count |-> py_len(r.val)]

(* The export panel, lines 322-325: what it writes and the count it       *)
(* reports.  len() of None or of a number raises after the file is        *)
(* written.                                                                *)
export_all(file, out) ==
    LET r == load_db(file) IN
    IF ~r.ok THEN [ok |-> FALSE, err |-> r.err, out |-> out, count |-> -1]
    ELSE IF py_len(r.val) < 0
    THEN [ok |-> FALSE, err |-> "TypeError", out |-> File(json_dumps(r.val)), count |-> -1]
    ELSE [ok |-> TRUE, err |-> "", out |-> File(json_dumps(r.val)),
          count |-> py_len(r.val)]

StoreExport(s) ==
    /\ pc[s] = "idle"
    /\ LET x == export_all(dbFile, exportFile) IN
       /\ exportFile' = x.out
       /\ result' = [result EXCEPT ![s] =
                        [op |-> "export", ok |-> x.ok, err |-> x.err,
                         val |-> PyNone, count |-> x.count]]
    /\ UNCHANGED <<dbFile, pc, db, entryArg, stale, calls, store0, appVars>>

StoreNext ==
    \E s \in Sessions :
        \/ \E e \in StoreEntries : StoreSaveRead(s, e)
        \/ StoreSaveWrite(s)
        \/ StoreLoad(s)
        \/ StoreExport(s)

SpecStore == StoreInit /\ [][StoreNext]_vars

(* Path.write_text(text), line 215, stopped by an exception or a kill:    *)
(* open(path, "w") fails and leaves the file alone (written = -1), or it  *)
(* has truncated the file and the first `written` tokens reached it.      *)
write_text(file, text, written) ==
    IF written < 0 THEN file ELSE File(SubSeq(text, 1, written))

(* save_entry, line 215, failing: nothing catches the exception, and the  *)
(* code has no temporary file or rename.                                   *)
StoreSaveWriteFails(s, written) ==
    /\ pc[s] = "write"
    /\ written < Len(json_dumps(db[s]))
    /\ dbFile' = write_text(dbFile, json_dumps(db[s]), written)
    /\ pc' = [pc EXCEPT ![s] = "idle"]
    /\ result' = [result EXCEPT ![s] = Returned("save", Raise("OSError"), -1)]
    /\ stale' = [t \in Sessions |->
                    IF t # s /\ pc[t] = "write" /\ written >= 0 THEN TRUE ELSE stale[t]]
    /\ calls' = Append(calls, [s |-> s, e |-> entryArg[s][1], stale |-> stale[s],
                                ok |-> FALSE])
    /\ UNCHANGED <<db, entryArg, exportFile, store0, appVars>>

(* SpecStoreFail: the store functions, with rewrites that may fail. *)
StoreFailNext ==
    \/ StoreNext
    \/ \E s \in Sessions : \E written \in -1..Len(json_dumps(db[s])) :
          StoreSaveWriteFails(s, written)

SpecStoreFail == StoreInit /\ [][StoreFailNext]_vars

----------------------------------------------------------------------------
(* The script.  Streamlit runs it top to bottom once per interaction; the *)
(* values its widgets return in that run are the record w.                *)

ModelSizes == {"small", "base", "tiny"}
Blank == {"", " "}
Texts == {"", " ", "sample lyrics"}
Uploadable ==
    {[name |-> <<"song1", ".wav">>, bytes |-> "bytesA"],
     [name |-> <<"song2", ".mp3">>, bytes |-> "bytesB"]}

(* What the speech model hears in a recording (external). *)
Heard ==
    {[transcript |-> "raam raam", language |-> "hi"],
     [transcript |-> "", language |-> "ta"]}

(* Path(audio_file.name).suffix *)
Suffix(name) == name[Len(name)]

(* datetime.utcnow().strftime("%Y%m%dT%H%M%SZ"): whole seconds. *)
strftime(t) == t \div TicksPerSecond

(* str.strip() *)
Strip(t) == IF t \in Blank THEN "" ELSE t

(* with open(saved_path, "wb") as f: f.write(...) on the upload directory, *)
(* a set of [path, bytes].                                                 *)
WriteFile(dir, path, bytes) ==
    {f \in dir : f.path # path} \cup {[path |-> path, bytes |-> bytes]}

(* The audio write swallows its exception and the run carries on. *)
open_write_swallowed(dir, path, bytes, fail) ==
    [ok |-> TRUE,
     dir |-> IF fail = "none" THEN WriteFile(dir, path, bytes) ELSE dir]

(* Lines 262-263 with their outcome: open() may raise (nothing created),  *)
(* f.write() may raise after open() created or truncated the file.        *)
open_write(dir, path, bytes, fail) ==
    CASE fail = "open" -> [ok |-> FALSE, dir |-> dir]
      [] fail = "write" -> [ok |-> FALSE, dir |-> WriteFile(dir, path, "")]
      [] OTHER -> [ok |-> TRUE, dir |-> WriteFile(dir, path, bytes)]

(* load_model, lines 182-189: the handle returned, MODEL afterwards, and  *)
(* whether WhisperModel(model_size, ...) was constructed.                 *)
load_model(whisper, M, model_size) ==
    IF ~whisper THEN [model |-> <<>>, MODEL |-> M, constructed |-> FALSE]
    ELSE IF M = <<>>
    THEN [model |-> <<model_size>>, MODEL |-> <<model_size>>, constructed |-> TRUE]
    ELSE [model |-> M, MODEL |-> M, constructed |-> FALSE]

(* transcribe_with_whisper, lines 191-197.  error is "error" in result. *)
transcribe_with_whisper(whisper, M, model_size, heard) ==
    LET l == load_model(whisper, M, model_size) IN
    IF l.model = <<>>
    THEN [transcript |-> "", language |-> <<>>, error |-> TRUE,
          model |-> <<>>, MODEL |-> l.MODEL, constructed |-> l.constructed]
    ELSE [transcript |-> heard.transcript, language |-> <<heard.language>>,
          error |-> FALSE, model |-> l.model, MODEL |-> l.MODEL,
          constructed |-> l.constructed]

(* lang_to_scheme.get(lang_code, sanscript.DEVANAGARI), lines 203-204 *)
lang_to_scheme(lang_code) ==
    CASE lang_code \in {"hi", "mr"} -> "devanagari"
      [] lang_code = "bn" -> "bengali"
      [] lang_code = "ta" -> "tamil"
      [] lang_code = "te" -> "telugu"
      [] OTHER -> "devanagari"

(* transliterate(text, src, sanscript.ITRANS) of the library (external). *)
transliterate(text, src) ==
    CASE text \in Blank -> text
      [] text = "raam raam" /\ src = "devanagari" -> "rAma rAma"
      [] src = "devanagari" -> "itrans from devanagari"
      [] src = "bengali" -> "itrans from bengali"
      [] src = "tamil" -> "itrans from tamil"
      [] src = "telugu" -> "itrans from telugu"
      [] OTHER -> "itrans from other script"

(* romanize, lines 199-205 *)
romanize(translit, text, lang_code) ==
    IF ~translit THEN "" ELSE transliterate(text, lang_to_scheme(lang_code))

(* The step without the strip() test: romanize is called on any text. *)
transliteration_step_no_strip(translit, transcript, detected_lang) ==
    IF translit THEN romanize(translit, transcript, detected_lang) ELSE ""

(* Lines 280-282: transliteration = ""; romanize is called only for a    *)
(* transcript that is not blank, and only when the library is there.     *)
transliteration_step(translit, transcript, detected_lang) ==
    IF Strip(transcript) # ""
    THEN (IF translit THEN romanize(translit, transcript, detected_lang) ELSE "")
    ELSE ""

(* The form handler saves without looking at the checkbox. *)
MaySave_no_consent(submitted, consent) == submitted

(* Lines 297-300: the entry is saved when the form was submitted and the *)
(* consent box is ticked.                                                 *)
MaySave(submitted, consent) == submitted /\ consent

(* The block skipped: nothing of it is rendered. *)
NoBlock(M) ==
    [ran |-> FALSE, aborted |-> FALSE, stage |-> "none", uploads |-> uploads,
     MODEL |-> M, dbFile |-> dbFile, form |-> FALSE, ts |-> -1,
     asr_called |-> FALSE, steps |-> <<>>, asr_language |-> <<>>,
     asr_transcript |-> "", romanized |-> "", constructed |-> FALSE,
     saved_path |-> NoPath, asr_error |-> FALSE, model |-> <<>>,
     transcript |-> "", translit_box |-> "", detected_lang |-> "",
     entry |-> NoEntry, msg |-> ""]

(* The block under "if audio_file and process:", lines 256-316.  steps is *)
(* the order in which the run executes its statements: the audio write   *)
(* (262-263), transcribe_with_whisper (267), the transliteration         *)
(* (280-282), the form (288-296), then the handler of a submission       *)
(* (297-316).                                                             *)
Block(af, w, M) ==
    LET suffix == Suffix(af[1].name)
        ts == strftime(now)
        saved_path == SavedPath(ts, suffix)
        asr == transcribe_with_whisper(WHISPER_AVAILABLE, M, w.model_choice, w.heard)
        shown_transcript == IF asr.error THEN "" ELSE asr.transcript
        transcript == IF w.transcript_in = <<>> THEN shown_transcript
                                                ELSE w.transcript_in[1]
        detected_lang == IF asr.language # <<>> /\ asr.language[1] # ""
                         THEN asr.language[1] ELSE w.lang_in
        transliteration ==
            transliteration_step(TRANSLIT_AVAILABLE, transcript, detected_lang)
        translit_box == IF w.translit_in = <<>> THEN transliteration
                                                ELSE w.translit_in[1]
        entry == Entry(ts, w.meta, saved_path, transcript, translit_box,
                       w.translation, detected_lang)
        saved == save_entry(dbFile, entry)
        written == open_write(uploads, saved_path, af[1].bytes, w.audio_fail)
        base == [ran |-> TRUE, aborted |-> FALSE, stage |-> "AwaitingConsent",
                 uploads |-> written.dir, asr_called |-> TRUE,
                 asr_language |-> asr.language, asr_transcript |-> asr.transcript,
                 romanized |-> transliteration, constructed |-> asr.constructed,
                 steps |-> <<"Uploaded", "Transcribed", "Transliterated",
                             "AwaitingConsent">>,
                 MODEL |-> asr.MODEL, dbFile |-> dbFile, form |-> TRUE,
                 ts |-> ts, saved_path |-> saved_path, asr_error |-> asr.error,
                 model |-> asr.model, transcript |-> transcript,
                 translit_box |-> translit_box, detected_lang |-> detected_lang,
                 entry |-> NoEntry, msg |-> ""]
    IN
    IF ~written.ok
    THEN [NoBlock(M) EXCEPT !.ran = TRUE, !.aborted = TRUE, !.uploads = written.dir,
                            !.ts = ts, !.saved_path = saved_path, !.msg = "IOError"]
    ELSE IF ~w.submitted THEN base
    ELSE IF ~MaySave(w.submitted, w.consent)
    THEN [base EXCEPT !.stage = "Rejected", !.msg = "Consent is required",
                      !.steps = Append(base.steps, "Rejected")]
    ELSE IF saved.ok
    THEN [base EXCEPT !.stage = "Saved", !.dbFile = saved.file, !.entry = entry,
                      !.msg = "Saved", !.steps = Append(base.steps, "Saved")]
    ELSE [base EXCEPT !.aborted = TRUE, !.msg = saved.err]

(* The script without line 41: MODEL is what the last run left. *)
MODEL_kept(M) == M

(* Line 41, `MODEL = None`: the value of MODEL once the top of the script *)
(* has run, whatever the previous run left in it.                         *)
MODEL_at_start(M) == <<>>

(* One run of the script, lines 37-333, with af in the uploader.  Line 41 *)
(* sets MODEL = None at the start of every run; an exception ends the run *)
(* where it is raised.                                                     *)
ScriptRun(af, w) ==
    LET M == MODEL_at_start(MODEL)
        shown == IF w.show THEN load_db(dbFile) ELSE Ok(PyNone)
        process == IF af # <<>> THEN w.process ELSE FALSE
        block == IF ~shown.ok
                 THEN [NoBlock(M) EXCEPT !.aborted = TRUE, !.msg = shown.err]
                 ELSE IF af # <<>> /\ process THEN Block(af, w, M)
                 ELSE NoBlock(M)
    IN
    \E b \in {block} :
    \E x \in {IF w.export /\ ~b.aborted THEN export_all(b.dbFile, exportFile)
              ELSE [ok |-> TRUE, err |-> "", out |-> exportFile, count |-> -1]} :
        /\ dbFile' = b.dbFile
        /\ exportFile' = x.out
        /\ uploads' = b.uploads
        /\ MODEL' = b.MODEL
        /\ screen' = [form |-> b.form,
                      transcript |-> b.transcript,
                      translit_box |-> b.translit_box,
                      shown |-> IF w.show /\ shown.ok THEN py_len(shown.val) ELSE -1,
                      exported |-> x.count,
                      msg |-> IF x.ok THEN b.msg ELSE x.err]
        /\ run' = [trigger |-> w.trigger, process |-> process,
                   submitted |-> w.submitted, consent |-> w.consent,
                   typed |-> w.typed, ran |-> b.ran,
                   aborted |-> b.aborted \/ ~x.ok, stage |-> b.stage, ts |-> b.ts,
                   saved_path |-> b.saved_path, asr_error |-> b.asr_error,
                   model |-> b.model, entry |-> b.entry, before |-> dbFile,
                   audio_fail |-> IF b.ran THEN w.audio_fail ELSE "none",
                   asr_called |-> b.asr_called, steps |-> b.steps,
                   asr_language |-> b.asr_language,
                   asr_transcript |-> b.asr_transcript,
                   romanized |-> b.romanized,
                   transcript_in |-> IF b.asr_called THEN w.transcript_in ELSE <<>>,
                   translit_in |-> IF b.asr_called THEN w.translit_in ELSE <<>>,
                   lang_in |-> IF b.asr_called THEN w.lang_in ELSE "",
                   constructed |-> b.constructed,
                   MODEL_before |-> IF b.asr_called THEN MODEL ELSE <<>>]
        /\ audio_file' = af
        /\ UNCHANGED <<now, WHISPER_AVAILABLE, TRANSLIT_AVAILABLE, storeVars>>

(* Widget values of a run in which nothing was clicked or typed. *)
Untouched ==
    [trigger |-> "none", show |-> FALSE, process |-> FALSE, submitted |-> FALSE,
     export |-> FALSE, consent |-> FALSE, typed |-> "", model_choice |-> "small",
     heard |-> [transcript |-> "", language |-> "ta"], transcript_in |-> <<>>,
     lang_in |-> "hi", translit_in |-> <<>>, translation |-> "",
     meta |-> EmptyMeta, audio_fail |-> "none"]

AppInit ==
    /\ dbFile = NoFile
    /\ exportFile = NoFile
    /\ uploads = {}
    /\ now = 0
    /\ WHISPER_AVAILABLE \in BOOLEAN
    /\ TRANSLIT_AVAILABLE \in BOOLEAN
    /\ MODEL = <<>>
    /\ audio_file = <<>>
    /\ screen = NoScreen
    /\ run = NoRun
    /\ pc = [s \in Sessions |-> "idle"]
    /\ db = [s \in Sessions |-> PyNone]
    /\ entryArg = [s \in Sessions |-> <<>>]
    /\ result = [s \in Sessions |-> NoResult]
    /\ stale = [s \in Sessions |-> FALSE]
    /\ calls = <<>>
    /\ store0 = NoFile

(* The clock advances. *)
Tick ==
    /\ now < MaxClock
    /\ now' = now + 1
    /\ UNCHANGED <<dbFile, exportFile, uploads, WHISPER_AVAILABLE, TRANSLIT_AVAILABLE,
                   MODEL, audio_file, screen, run, storeVars>>

----------------------------------------------------------------------------
(* Spec: an operator's session.  Each interaction reruns the script; a    *)
(* button returns True only in the rerun caused by its own click, and a   *)
(* widget that a run does not render is gone from the page.               *)

(* The operator puts a file in the uploader (line 234) or clears it. *)
Upload(f) ==
    /\ audio_file # <<f>>
    /\ ScriptRun(<<f>>, [Untouched EXCEPT !.trigger = "upload"])

ClearUpload ==
    /\ audio_file # <<>>
    /\ ScriptRun(<<>>, [Untouched EXCEPT !.trigger = "clear"])

(* Line 236: the record button only shows a notice. *)
ClickRecord ==
    ScriptRun(audio_file, [Untouched EXCEPT !.trigger = "record"])

(* Lines 245-250 *)
ClickShow ==
    ScriptRun(audio_file, [Untouched EXCEPT !.trigger = "show", !.show = TRUE])

(* Line 254: the button is rendered only while a file is in the uploader. *)
ClickProcess(size, heard, fail) ==
    /\ audio_file # <<>>
    /\ ScriptRun(audio_file,
                 [Untouched EXCEPT !.trigger = "process", !.process = TRUE,
                                   !.model_choice = size, !.heard = heard,
                                   !.audio_fail = fail])

(* The operator changes a widget outside the form (the transcript, the    *)
(* transliteration, the translation, the language, the model size): the   *)
(* script reruns with no button pressed.                                   *)
EditText(text) ==
    /\ screen.form
    /\ ScriptRun(audio_file,
                 [Untouched EXCEPT !.trigger = "edit", !.typed = text,
                                   !.transcript_in = <<text>>])

(* Line 296: the operator presses "Save entry" on the form on the page.   *)
(* The rerun is caused by this button, so "Process audio" returns False.  *)
SubmitForm(consent) ==
    /\ screen.form
    /\ ScriptRun(audio_file,
                 [Untouched EXCEPT !.trigger = "submit", !.submitted = TRUE,
                                   !.consent = consent])

(* Lines 321-325 *)
ClickExport ==
    ScriptRun(audio_file, [Untouched EXCEPT !.trigger = "export", !.export = TRUE])

(* Line 327: the CSV button only shows a notice. *)
ClickCSV ==
    ScriptRun(audio_file, [Untouched EXCEPT !.trigger = "csv"])

Next ==
    \/ Tick
    \/ \E f \in Uploadable : Upload(f)
    \/ ClearUpload
    \/ ClickRecord
    \/ ClickShow
    \/ \E size \in ModelSizes, heard \in Heard, fail \in {"none", "open", "write"} :
          ClickProcess(size, heard, fail)
    \/ \E text \in Texts \ {""} : EditText(text)
    \/ \E consent \in BOOLEAN : SubmitForm(consent)
    \/ ClickExport
    \/ ClickCSV

Spec == AppInit /\ [][Next]_vars

----------------------------------------------------------------------------
(* SpecBody: the script body on any values its widgets may return, the    *)
(* two buttons of the pipeline included in the same run.                  *)

(* Widget values of one run.  The form and its button exist only inside  *)
(* the block, so they return nothing when "Process audio" is False; what *)
(* the model hears and what the operator ticks matter only in a run that *)
(* gets past the audio write.  The two panels outside the block are      *)
(* opened together or not at all.                                        *)
BodyInputs ==
    {w \in
     {[Untouched EXCEPT !.trigger = "body", !.process = p, !.submitted = sub,
                        !.consent = c, !.heard = h, !.transcript_in = t,
                        !.typed = IF t = <<>> THEN "" ELSE t[1],
                        !.audio_fail = fail, !.show = sh, !.export = ex] :
         p \in BOOLEAN, sub \in BOOLEAN, c \in BOOLEAN, h \in Heard,
         t \in {<<>>}, fail \in {"none", "open", "write"},
         sh \in BOOLEAN, ex \in BOOLEAN} :
     /\ w.process \/ (~w.submitted /\ w.audio_fail = "none" /\ w.heard = Untouched.heard)
     /\ w.submitted \/ ~w.consent
     /\ w.audio_fail = "none" \/ w.heard = Untouched.heard
     /\ w.show = w.export}

(* The recording in the uploader during these runs. *)
BodyFiles == {f \in Uploadable : Suffix(f.name) = ".wav"}

BodyRun(af, w) ==
    /\ w.process => af # <<>>
    /\ (w.submitted /\ w.consent /\ IsCollection(dbFile))
         => Len(Collection(dbFile)) < MaxSaved
    /\ ScriptRun(af, w)

BodyNext ==
    \/ Tick
    \/ \E af \in {<<>>} \cup {<<f>> : f \in BodyFiles}, w \in BodyInputs : BodyRun(af, w)

SpecBody == AppInit /\ [][BodyNext]_vars

----------------------------------------------------------------------------
(* SpecEntry: runs of the script body in which the operator edits the    *)
(* transcript, the transliteration and the language code before saving   *)
(* the first entry of a store.                                            *)

EntryInputs ==
    {[Untouched EXCEPT !.trigger = "body", !.process = TRUE, !.submitted = TRUE,
                       !.consent = c, !.heard = h, !.transcript_in = t,
                       !.typed = IF t = <<>> THEN "" ELSE t[1],
                       !.translit_in = tl, !.lang_in = lang] :
        c \in BOOLEAN, h \in Heard,
        t \in {<<>>} \cup {<<x>> : x \in Texts},
        tl \in {<<>>, <<"typed romanization">>},
        lang \in {"hi", "bn", "xx"}}

EntryRun(f, w) ==
    /\ dbFile = NoFile
    /\ ScriptRun(<<f>>, w)

EntryNext ==
    \/ Tick
    \/ \E f \in Uploadable, w \in EntryInputs : EntryRun(f, w)

SpecEntry == AppInit /\ [][EntryNext]_vars

----------------------------------------------------------------------------
(* SpecTranslit: romanize and the transliteration step called on their   *)
(* own; calls holds the last call and what it returned.                   *)

KnownCodes == {"hi", "mr", "bn", "ta", "te"}
LangCodes == KnownCodes \cup {"xx"}
TranslitTexts == Texts \cup {"raam raam"}

CallRomanize(text, lang_code) ==
    /\ calls' = <<[op |-> "romanize", text |-> text, lang_code |-> lang_code,
                   out |-> romanize(TRANSLIT_AVAILABLE, text, lang_code)]>>
    /\ UNCHANGED <<dbFile, exportFile, pc, db, entryArg, result, stale, store0, appVars>>

CallTransliterationStep(text, lang_code) ==
    /\ calls' = <<[op |-> "step", text |-> text, lang_code |-> lang_code,
                   out |-> transliteration_step(TRANSLIT_AVAILABLE, text, lang_code)]>>
    /\ UNCHANGED <<dbFile, exportFile, pc, db, entryArg, result, stale, store0, appVars>>

TranslitNext ==
    \E text \in TranslitTexts, lang_code \in LangCodes :
        \/ CallRomanize(text, lang_code)
        \/ CallTransliterationStep(text, lang_code)

SpecTranslit == AppInit /\ [][TranslitNext]_vars

----------------------------------------------------------------------------
(* Claims checked under SpecStore *)

(* C2: order-preserving append.  When save_entry(e) completes and no      *)
(* other writer wrote between its read and its rewrite, load_db() returns *)
(* the collection that was stored with e appended as the last element:    *)
(* one entry more, every earlier entry at its position with its value.    *)
C2_AppendLaw ==
    [][\A s \in Sessions :
          (StoreSaveWrite(s) /\ ~stale[s] /\ IsCollection(dbFile))
            => /\ IsCollection(dbFile')
               /\ Collection(dbFile') = Append(Collection(dbFile), entryArg[s][1])
               /\ Len(Collection(dbFile')) = Len(Collection(dbFile)) + 1]_vars

C2_Witness ==
    /\ Len(calls) > 0
    /\ ~calls[Len(calls)].stale
    /\ IsCollection(dbFile)
    /\ Len(Collection(dbFile)) >= 3
    /\ Collection(dbFile)[Len(Collection(dbFile))] = calls[Len(calls)].e
    /\ Collection(dbFile)[1] # calls[Len(calls)].e

(* C4: two save_entry calls on a collection.  If the second to finish     *)
(* read before the first rewrote the file (the calls interleaved), the    *)
(* file holds the starting collection plus the second writer's entry      *)
(* only: the first append is lost.  If they did not interleave it holds   *)
(* both entries, in the order the calls finished.                         *)
C4_LostUpdate ==
    (Len(calls) = 2 /\ IsCollection(store0) /\ \A s \in Sessions : pc[s] = "idle")
      => /\ IsCollection(dbFile)
         /\ ~calls[1].stale
         /\ Collection(dbFile) =
              IF calls[2].stale
              THEN Append(Collection(store0), calls[2].e)
              ELSE Append(Append(Collection(store0), calls[1].e), calls[2].e)

C4_Witness ==
    /\ Len(calls) = 2
    /\ \A s \in Sessions : pc[s] = "idle" /\ result[s].op = "save" /\ result[s].ok
    /\ calls[1].s # calls[2].s
    /\ calls[1].e # calls[2].e
    /\ calls[2].stale
    /\ IsCollection(dbFile)
    /\ Collection(dbFile) = Append(Collection(store0), calls[2].e)

(* C6: a data.json that exists and is not a sequence of entry records is  *)
(* never rewritten, save_entry on it fails, and load_db on it fails.      *)
C6_CorruptStoreRejected ==
    [][(dbFile.exists /\ ~IsCollection(dbFile))
         => /\ dbFile' = dbFile
            /\ \A s \in Sessions :
                  /\ StoreLoad(s) => ~result'[s].ok
                  /\ (\E e \in StoreEntries : StoreSaveRead(s, e))
                       => (~result'[s].ok /\ pc'[s] = "idle")]_vars

(* C8: export of a collection of n entries writes those n entries in the  *)
(* same order to export.json, reports n and leaves data.json as it was;   *)
(* with no data.json it writes the empty sequence and reports 0.          *)
C8_ExportLaw ==
    [][\A s \in Sessions :
          (StoreExport(s) /\ IsCollection(dbFile))
            => /\ result'[s].ok
               /\ exportFile'.exists
               /\ IsCollection(exportFile')
               /\ Collection(exportFile') = Collection(dbFile)
               /\ result'[s].count = Len(Collection(dbFile))
               /\ dbFile' = dbFile
               /\ (dbFile.exists => exportFile'.text = dbFile.text)
               /\ (~dbFile.exists =>
                     /\ exportFile'.text = <<LB, RB>>
                     /\ result'[s].count = 0)]_vars

C8_Witness ==
    \E s \in Sessions :
        /\ result[s].op = "export"
        /\ result[s].ok
        /\ result[s].count = 3
        /\ IsCollection(dbFile)
        /\ Len(Collection(dbFile)) = 3
        /\ exportFile.exists
        /\ Collection(exportFile) = Collection(dbFile)

(* C10: load_db with no data.json returns the empty list, raises nothing  *)
(* and leaves data.json absent.                                            *)
C10_EmptyStore ==
    [][\A s \in Sessions :
          (StoreLoad(s) /\ ~dbFile.exists)
            => /\ result'[s].ok
               /\ result'[s].val = PyList(<<>>)
               /\ ~dbFile'.exists]_vars

C10_Witness ==
    \E s \in Sessions :
        /\ ~dbFile.exists
        /\ result[s].op = "load"
        /\ result[s].ok
        /\ result[s].val = PyList(<<>>)

----------------------------------------------------------------------------
(* Claim checked under SpecStoreFail *)

(* C12: no partial entry on a failed rewrite.  When the rewrite of        *)
(* data.json inside save_entry fails part-way on a stored collection, the *)
(* file afterwards holds a collection: the one from before the rewrite    *)
(* or that one with the whole new entry appended.                         *)
C12_NoPartialStore ==
    [][\A s \in Sessions : \A written \in -1..Len(json_dumps(db[s])) :
          (/\ StoreSaveWriteFails(s, written)
           /\ ~stale[s]
           /\ IsCollection(dbFile)
           /\ Len(Collection(dbFile)) >= 1)
            => /\ IsCollection(dbFile')
               /\ \/ Collection(dbFile') = Collection(dbFile)
                  \/ Collection(dbFile') = Append(Collection(dbFile), entryArg[s][1])]_vars

----------------------------------------------------------------------------
(* Claims checked under SpecBody *)

(* C1: consent gate.  data.json changes only in a script run whose form   *)
(* was submitted with the consent box ticked; a run whose submission has  *)
(* the box unticked leaves data.json as it was; no run reaches Saved with *)
(* consent withheld.                                                       *)
C1_ConsentGate ==
    [][/\ (dbFile' # dbFile) =>
              (run'.submitted /\ run'.consent /\ run'.stage = "Saved")
       /\ (run'.submitted /\ ~run'.consent) => (dbFile' = dbFile)
       /\ (run'.stage = "Saved") => run'.consent]_vars

C1_Witness ==
    /\ run.ran
    /\ run.submitted
    /\ ~run.consent
    /\ run.stage = "Rejected"
    /\ dbFile = run.before
    /\ IsCollection(dbFile)
    /\ Len(Collection(dbFile)) >= 1

(* C11: audio write failure.  A run of the pipeline block whose audio     *)
(* write (open or f.write, lines 262-263) raises stops there: speech      *)
(* recognition is not called, the form is not rendered, no entry is       *)
(* built or saved, and data.json is what it was before the run, whatever  *)
(* the form widgets returned in that run.                                 *)
C11_AudioFailureAborts ==
    (run.ran /\ run.audio_fail # "none")
      => /\ run.aborted
         /\ run.stage = "none"
         /\ ~run.asr_called
         /\ run.model = <<>>
         /\ MODEL = <<>>
         /\ ~screen.form
         /\ run.entry = NoEntry
         /\ dbFile = run.before

C11_Witness ==
    /\ run.ran
    /\ run.audio_fail = "write"
    /\ run.submitted /\ run.consent
    /\ WHISPER_AVAILABLE
    /\ run.aborted
    /\ [path |-> run.saved_path, bytes |-> ""] \in uploads
    /\ IsCollection(dbFile) /\ Len(Collection(dbFile)) >= 1
    /\ dbFile = run.before

(* s is a prefix of t. *)
IsPrefix(s, t) == Len(s) <= Len(t) /\ SubSeq(t, 1, Len(s)) = s

(* C14: append-only store in one session.  Every run of the script        *)
(* leaves data.json holding a collection of which the collection before   *)
(* the run is a prefix (so what was stored at any earlier point is a      *)
(* prefix of what is stored at any later point).  The file changes only   *)
(* in a run that calls save_entry, by that run's entry appended; "Show    *)
(* saved entries", "Export all", a rejected submission, a run stopped by  *)
(* a failed audio write and a run that stops at the form leave it as it   *)
(* is.                                                                     *)
C14_AppendOnly ==
    [][/\ IsCollection(dbFile')
       /\ (run'.stage # "Saved") => (dbFile' = dbFile)
       /\ (dbFile' # dbFile)
            => /\ run'.stage = "Saved"
               /\ Collection(dbFile') = Append(Collection(dbFile), run'.entry)
               /\ IsPrefix(Collection(dbFile), Collection(dbFile'))]_vars

C14_Witness ==
    /\ run.ran /\ run.stage = "Rejected"
    /\ screen.shown = 2
    /\ screen.exported = 2
    /\ IsCollection(dbFile)
    /\ Len(Collection(dbFile)) = 2
    /\ dbFile = run.before
    /\ exportFile = dbFile

----------------------------------------------------------------------------
(* Claim checked under SpecEntry *)

(* C15: entry shape.  The entry a run persists has uploaded_at equal to   *)
(* its id (the run's ts), audio_path equal to the upload directory        *)
(* joined with id and the extension of the uploaded file, transcript and  *)
(* transliteration equal to what the operator left in the two text        *)
(* areas (the typed text, or the proposed text when nothing was typed),   *)
(* detected_language equal to the language the speech model returned,     *)
(* or the code the operator entered when it returned none, and no         *)
(* consent field.  With the model returning "raam raam" in "hi", the      *)
(* library romanizing it to "rAma rAma" and nothing edited, the entry     *)
(* has detected_language "hi" and transliteration "rAma rAma".            *)
C15_EntryShape ==
    (run.stage = "Saved")
      => /\ IsCollection(dbFile)
         /\ Len(Collection(dbFile)) >= 1
         /\ LET e == Collection(dbFile)[Len(Collection(dbFile))] IN
            /\ e = run.entry
            /\ e.id = run.ts
            /\ e.uploaded_at = e.id
            /\ e.audio_path = <<"uploads", e.id, Suffix(audio_file[1].name)>>
            /\ e.transcript = IF run.transcript_in # <<>> THEN run.transcript_in[1]
                               ELSE run.asr_transcript
            /\ e.transliteration = IF run.translit_in # <<>> THEN run.translit_in[1]
                                    ELSE run.romanized
            /\ e.detected_language = IF run.asr_language \notin {<<>>, <<"">>}
                                      THEN run.asr_language[1] ELSE run.lang_in
            /\ "consent" \notin DOMAIN e
            /\ (/\ run.asr_transcript = "raam raam"
                /\ run.asr_language = <<"hi">>
                /\ TRANSLIT_AVAILABLE
                /\ run.transcript_in = <<>>
                /\ run.translit_in = <<>>)
                 => (e.detected_language = "hi" /\ e.transliteration = "rAma rAma")

C15_Witness ==
    /\ run.stage = "Saved"
    /\ run.consent
    /\ run.asr_transcript = "raam raam"
    /\ run.asr_language = <<"hi">>
    /\ TRANSLIT_AVAILABLE
    /\ run.transcript_in = <<>>
    /\ run.translit_in = <<>>
    /\ now > 0
    /\ IsCollection(dbFile)
    /\ Collection(dbFile) = <<run.entry>>
    /\ run.entry.transliteration = "rAma rAma"
    /\ run.entry.detected_language = "hi"

----------------------------------------------------------------------------
(* Claims checked under SpecTranslit *)

(* C16 as stated: romanize(text, lang_code) returns "" whenever the       *)
(* library is unavailable or text is empty or whitespace-only; with the   *)
(* library it transliterates from the scheme mapped to a known code and   *)
(* from Devanagari for an unknown code.                                    *)
C16_RomanizeContract ==
    \A i \in 1..Len(calls) :
        LET c == calls[i] IN
        (c.op = "romanize")
          => /\ (~TRANSLIT_AVAILABLE \/ Strip(c.text) = "") => c.out = ""
             /\ (TRANSLIT_AVAILABLE /\ Strip(c.text) # "")
                  => c.out = transliterate(c.text,
                                 IF c.lang_code \in KnownCodes
                                 THEN lang_to_scheme(c.lang_code) ELSE "devanagari")

(* C16 amended: romanize returns "" when the library is unavailable or    *)
(* text is empty, and otherwise what the library gives for text, taken    *)
(* in the scheme mapped to a known code and in Devanagari for an unknown  *)
(* code; whitespace-only text goes to the library like any other.  The    *)
(* transliteration step, which calls romanize only for a transcript that  *)
(* is not blank, yields "" whenever the library is unavailable or the     *)
(* transcript is empty or whitespace-only, and romanize's result          *)
(* otherwise.                                                              *)
C16_TransliterationStep ==
    \A i \in 1..Len(calls) :
        LET c == calls[i]
            src == IF c.lang_code \in KnownCodes
                   THEN lang_to_scheme(c.lang_code) ELSE "devanagari"
        IN
        /\ (c.op = "romanize")
             => /\ (~TRANSLIT_AVAILABLE \/ c.text = "") => c.out = ""
                /\ TRANSLIT_AVAILABLE => c.out = transliterate(c.text, src)
        /\ (c.op = "step")
             => /\ (~TRANSLIT_AVAILABLE \/ Strip(c.text) = "") => c.out = ""
                /\ (TRANSLIT_AVAILABLE /\ Strip(c.text) # "")
                     => c.out = transliterate(c.text, src)

C16_Witness ==
    /\ TRANSLIT_AVAILABLE
    /\ Len(calls) = 1
    /\ calls[1].op = "step"
    /\ calls[1].text = " "
    /\ calls[1].lang_code = "xx"
    /\ calls[1].out = ""

----------------------------------------------------------------------------
(* Claims checked under Spec *)

(* C3: successful run.  After the operator uploaded audio, pressed        *)
(* "Process audio" and submitted the form with consent ticked, no write   *)
(* having failed, data.json holds one entry more than before and that     *)
(* entry's audio_path names an upload file holding the uploaded bytes.    *)
C3_SuccessfulRun ==
    (run.trigger = "submit" /\ run.consent /\ ~run.aborted /\ audio_file # <<>>)
      => /\ IsCollection(dbFile)
         /\ Len(Collection(dbFile)) = Len(Collection(run.before)) + 1
         /\ \E f \in uploads :
               /\ f.path = Collection(dbFile)[Len(Collection(dbFile))].audio_path
               /\ f.bytes = audio_file[1].bytes

(* C5: fresh id and file per run.  A run of the pipeline block takes an   *)
(* id no earlier run took and writes a path no earlier run wrote, and no  *)
(* two entries of the collection share an id or an audio_path.            *)
C5_FreshIdAndFile ==
    [][/\ ((\E size \in ModelSizes, heard \in Heard : ClickProcess(size, heard, "none"))
             => \A f \in uploads :
                   f.bytes # "" => (f.path # run'.saved_path /\ f.path[2] # run'.ts))
       /\ (IsCollection(dbFile') =>
             \A i, j \in 1..Len(Collection(dbFile')) :
                 i # j => /\ Collection(dbFile')[i].id # Collection(dbFile')[j].id
                          /\ Collection(dbFile')[i].audio_path
                               # Collection(dbFile')[j].audio_path)]_vars

(* C7: retry after rejection.  After a submission with consent withheld   *)
(* the form of that submission is still on the page with its transcript,  *)
(* and a submission with consent ticked reaches Saved and appends the     *)
(* entry.                                                                  *)
C7_RetryAfterRejection ==
    /\ (run.trigger = "submit" /\ ~run.consent)
         => (screen.form /\ run.stage = "Rejected" /\ dbFile = run.before)
    /\ (run.trigger = "submit" /\ run.consent /\ ~run.aborted)
         => (run.stage = "Saved" /\ dbFile # run.before)

(* C9: speech-to-text unavailable.  transcribe_with_whisper returns its   *)
(* error value without raising and the form is shown with an empty        *)
(* transcript; after the operator typed a transcript the submission is    *)
(* still on the page with that text; submitted with consent it is saved   *)
(* with that transcript, and with an empty transliteration when           *)
(* transliteration is unavailable too.                                     *)
C9_AsrUnavailableBranch ==
    ~WHISPER_AVAILABLE =>
      /\ (run.trigger = "process" /\ run.ran /\ ~run.aborted)
           => (run.asr_error /\ run.stage = "AwaitingConsent"
               /\ screen.form /\ screen.transcript = "")
      /\ (run.trigger = "edit")
           => (screen.form /\ screen.transcript = run.typed)
      /\ (run.trigger = "submit" /\ run.consent /\ ~run.aborted)
           => /\ run.stage = "Saved"
              /\ ~TRANSLIT_AVAILABLE => run.entry.transliteration = ""

(* C13: step order.  A run that ends Saved has gone, once each and in     *)
(* this order, through Uploaded, Transcribed, Transliterated,             *)
(* AwaitingConsent and Saved, with the whole recording in its audio file  *)
(* before save_entry is called; and a submission of the form ends         *)
(* either Saved or Rejected.                                              *)
C13_StepOrder ==
    [][/\ (run'.stage = "Saved")
            => /\ run'.steps = <<"Uploaded", "Transcribed", "Transliterated",
                                 "AwaitingConsent", "Saved">>
               /\ [path |-> run'.saved_path, bytes |-> audio_file'[1].bytes]
                     \in uploads'
       /\ \A consent \in BOOLEAN :
             SubmitForm(consent) => run'.stage \in {"Saved", "Rejected"}]_vars

(* C17: one cached model.  In one process, a call of                      *)
(* transcribe_with_whisper made after an earlier call loaded a model      *)
(* constructs nothing and runs on that same model; when faster-whisper    *)
(* is unavailable nothing is constructed and load_model returns None.     *)
C17_SingleCachedModel ==
    /\ (run.asr_called /\ run.MODEL_before # <<>>)
         => (~run.constructed /\ run.model = run.MODEL_before)
    /\ (run.asr_called /\ ~WHISPER_AVAILABLE)
         => (~run.constructed /\ run.model = <<>> /\ MODEL = <<>>)

----------------------------------------------------------------------------
(* Claim checked under Spec: the model size *)

(* C18: the selected size is honoured.  Every run of "Process audio"      *)
(* that transcribes does so on a model of the size selected in that run,  *)
(* also when the run before it transcribed with another size.             *)
C18_SizeHonoured ==
    [][(run'.trigger = "process" /\ run'.asr_called /\ WHISPER_AVAILABLE)
         => \A size \in ModelSizes, heard \in Heard, fail \in {"none", "open", "write"} :
               ClickProcess(size, heard, fail)
                 => (run'.model = <<size>> /\ ~run'.asr_error)]_vars

C18_Witness ==
    /\ WHISPER_AVAILABLE
    /\ run.asr_called
    /\ run.MODEL_before = <<"small">>
    /\ run.model = <<"tiny">>
    /\ MODEL = <<"tiny">>
    /\ screen.transcript = "raam raam"

====
